---- MODULE Spec2Model ----
(***************************************************************************)
(* The score/rank state machine of style-meter: the ScoreKeeper class      *)
(* (score-keeper, the second half of src/src/config.ts), its decay timer   *)
(* and its text-change handler.                                            *)
(*                                                                         *)
(* Numbers.  The code computes with IEEE doubles.  The model computes with *)
(* exact fixed-point numbers: a score, a threshold, maxScore and every     *)
(* delta is an integer count of 1/ScoreUnitsPerPoint points.  The unit is  *)
(* chosen so that the decay penalty of every whole number of milliseconds  *)
(* and the gain of every reward on a table of 1 or 3 ranks (the tables of  *)
(* Configs) is a whole number of units: no division of the model rounds.   *)
(***************************************************************************)
EXTENDS Integers, Sequences, FiniteSets

VARIABLES
    config,           \* ScoreKeeper.config: ranks (thresholds), maxScore, gainFactor, degradationFactor
    _score,           \* ScoreKeeper._score
    _rankIndex,       \* ScoreKeeper._rankIndex
    _lastUpdateTime,  \* ScoreKeeper._lastUpdateTime (ms)
    now,              \* the wall clock read by new Date().valueOf() (ms)
    timerDue,         \* earliest time at which the setInterval callback runs next
    _timer,           \* ScoreKeeper._timer: "live" after setInterval, "cleared" after clearInterval
    hostSubscribed,   \* the onDidChangeTextDocument registration pushed to _disposables is live
    listeners,        \* the handlers subscribed to _onScoreChange and _onRankChange, in order
    disposed,         \* history: ScoreKeeper.dispose() has returned
    call,             \* history: the last _changeScore call (argument and the state it started from)
    fired,            \* history: the events the last _changeScore call published, in fire() order
    delivered,        \* history: the handler invocations of the last _changeScore call, in order
    prevRankEvent,    \* history: the last RankChangeEvent published before the last call
    probe,            \* inputs and results of the rank lookups of SpecRank
    loop,             \* the event loop of SpecLoop: task queue, running task, delivery log
    bus,              \* the change notification bus of SpecBus
    disposeCalls,     \* history: the number of ScoreKeeper.dispose() calls made
    ext,              \* the extension of SpecExt: the styleMeter singleton and its instances
    music             \* the MusicPlayer of SpecMusic

vars == <<config, _score, _rankIndex, _lastUpdateTime, now, timerDue, _timer,
          hostSubscribed, listeners, disposed, call, fired, delivered, prevRankEvent, probe,
          loop, bus, disposeCalls, ext, music>>

-----------------------------------------------------------------------------
(* Bounds of the model *)

ClockStepMs == 5000
StartNow == 1000000
MaxElapsedMs == 10000
MaxChanges == 2
MaxTextLen == 3
MaxProbeRanks == 3
MaxProbeScore == 4
MaxDisposeCalls == 2

(* Program constants *)

STYLE_DEGRADE_PERIOD_MS == 500
STYLE_DEGRADE_ACC_PPS2 == 2
MAX_CHANGE_REWARD == 5
DIFFICULTY_FACTOR == 4
MAX_INACTIVE_MS == 100000
MIN_VOLUME_UPDATE_PERIOD_MS == 200

\* The resolution of scores: 1/1000 point is the decay of one millisecond
\* (1e6 / (STYLE_DEGRADE_PERIOD_MS * STYLE_DEGRADE_ACC_PPS2) milliseconds per point),
\* and 3 * DIFFICULTY_FACTOR is a common multiple of the difficulty divisors
\* n + (r + 1) * (DIFFICULTY_FACTOR - 1) over n, for n = 1 and n = 3 ranks
\* (the divisors 5/2 and 4 of n = 2 ranks divide the first factor).
ScoreUnitsPerPoint ==
    (1000000 \div (STYLE_DEGRADE_PERIOD_MS * STYLE_DEGRADE_ACC_PPS2)) * 3 * DIFFICULTY_FACTOR

Points(p) == p * ScoreUnitsPerPoint

-----------------------------------------------------------------------------
(* Configurations *)

MkConfig(thresholds, maxScore, gainFactor, degradationFactor) ==
    [ranks |-> [i \in 1..Len(thresholds) |-> Points(thresholds[i])],
     maxScore |-> Points(maxScore),
     gainFactor |-> gainFactor,
     degradationFactor |-> degradationFactor]

\* thresholds 0/20/30 with maxScore 40: the table of the spec's scenarios
ScenarioConfig == MkConfig(<<0, 20, 30>>, 40, 5, 6)

Configs ==
    { ScenarioConfig,
      MkConfig(<<0, 20, 30>>, 40, 1, 2),
      MkConfig(<<10>>, 20, 2, 1),
      MkConfig(<<10, 20, 30>>, 25, 3, 3),
      MkConfig(<<10, 20>>, 20, 2, 2),
      MkConfig(<<0, 20, 30>>, 40, -1, -1) }

-----------------------------------------------------------------------------
(* Events *)

ScoreChangeEvent(rankIndex, score) == [kind |-> "score", rankIndex |-> rankIndex, score |-> score]

RankChangeEvent(rankIndex) == [kind |-> "rank", rankIndex |-> rankIndex]

-----------------------------------------------------------------------------
(* _getRankIndex: scan from the last rank down, return the first index whose
   threshold the score exceeds.  Indices are the code's (0-based): ranks[i]
   of the code is ranks[i + 1] of the sequence. *)

RECURSIVE scanGreater(_, _, _)
scanGreater(ranks, score, i) ==
    IF i < 0 THEN -1
    ELSE IF score > ranks[i + 1] THEN i
    ELSE scanGreater(ranks, score, i - 1)

RECURSIVE scanGreaterOrEqual(_, _, _)
scanGreaterOrEqual(ranks, score, i) ==
    IF i < 0 THEN -1
    ELSE IF score >= ranks[i + 1] THEN i
    ELSE scanGreaterOrEqual(ranks, score, i - 1)

RECURSIVE scanLess(_, _, _)
scanLess(ranks, score, i) ==
    IF i < 0 THEN -1
    ELSE IF score < ranks[i + 1] THEN i
    ELSE scanLess(ranks, score, i - 1)

getRankIndexInclusive(score) == scanGreaterOrEqual(config.ranks, score, Len(config.ranks) - 1)

getRankIndexFlipped(score) == scanLess(config.ranks, score, Len(config.ranks) - 1)

_getRankIndex(score) == scanGreater(config.ranks, score, Len(config.ranks) - 1)

-----------------------------------------------------------------------------
(* _changeScore *)

clampNoUpper(s) == IF s < 0 THEN 0 ELSE s

\* the clamp of _changeScore: below 0 gives 0, above maxScore gives maxScore
clamp(s) ==
    IF s < 0 THEN 0
    ELSE IF s > config.maxScore THEN config.maxScore
    ELSE s

\* mutant: no early return when the clamped score is unchanged
changeScoreNoReturn(amount) ==
    LET newScore == clamp(_score + amount)
        newRank == _getRankIndex(newScore)
    IN [score |-> newScore, rankIndex |-> newRank,
        fired |-> <<ScoreChangeEvent(newRank, newScore)>> \o
                  (IF newRank # _rankIndex THEN <<RankChangeEvent(newRank)>> ELSE <<>>)]

\* mutant: the score event carries the rank from before the update
changeScoreStaleRank(amount) ==
    LET newScore == clamp(_score + amount)
        newRank == _getRankIndex(newScore)
    IN IF newScore = _score
       THEN [score |-> newScore, rankIndex |-> _rankIndex, fired |-> <<>>]
       ELSE [score |-> newScore, rankIndex |-> newRank,
             fired |-> <<ScoreChangeEvent(_rankIndex, newScore)>> \o
                       (IF newRank # _rankIndex THEN <<RankChangeEvent(newRank)>> ELSE <<>>)]

\* mutant: the rank event is published on every score change
changeScoreAlwaysRank(amount) ==
    LET newScore == clamp(_score + amount)
        newRank == _getRankIndex(newScore)
    IN IF newScore = _score
       THEN [score |-> newScore, rankIndex |-> _rankIndex, fired |-> <<>>]
       ELSE [score |-> newScore, rankIndex |-> newRank,
             fired |-> <<ScoreChangeEvent(newRank, newScore), RankChangeEvent(newRank)>>]

\* mutant: the rank event is published before the score event
changeScoreRankFirst(amount) ==
    LET newScore == clamp(_score + amount)
        newRank == _getRankIndex(newScore)
    IN IF newScore = _score
       THEN [score |-> newScore, rankIndex |-> _rankIndex, fired |-> <<>>]
       ELSE [score |-> newScore, rankIndex |-> newRank,
             fired |-> (IF newRank # _rankIndex THEN <<RankChangeEvent(newRank)>> ELSE <<>>) \o
                       <<ScoreChangeEvent(newRank, newScore)>>]

\* mutant: the rank event is also published on every gain, whether or not the rank changed
changeScoreRankOnGain(amount) ==
    LET newScore == clamp(_score + amount)
        newRank == _getRankIndex(newScore)
    IN IF newScore = _score
       THEN [score |-> newScore, rankIndex |-> _rankIndex, fired |-> <<>>]
       ELSE [score |-> newScore, rankIndex |-> newRank,
             fired |-> <<ScoreChangeEvent(newRank, newScore)>> \o
                       (IF newRank # _rankIndex \/ amount > 0
                        THEN <<RankChangeEvent(newRank)>> ELSE <<>>)]

\* mutant: the rank is looked up before the new score is stored
changeScoreRankFromOldScore(amount) ==
    LET newScore == clamp(_score + amount)
        newRank == _getRankIndex(_score)
    IN IF newScore = _score
       THEN [score |-> newScore, rankIndex |-> _rankIndex, fired |-> <<>>]
       ELSE [score |-> newScore, rankIndex |-> newRank,
             fired |-> <<ScoreChangeEvent(newRank, newScore)>> \o
                       (IF newRank # _rankIndex THEN <<RankChangeEvent(newRank)>> ELSE <<>>)]

\* The result of _changeScore(amount) on the current state: the new score and
\* rank index, and the events published, in the order of the fire() calls.
_changeScore(amount) ==
    LET newScore == clamp(_score + amount)
    IN IF newScore = _score
       THEN [score |-> newScore, rankIndex |-> _rankIndex, fired |-> <<>>]
       ELSE LET newRank == _getRankIndex(newScore)
            IN [score |-> newScore, rankIndex |-> newRank,
                fired |-> <<ScoreChangeEvent(newRank, newScore)>> \o
                          (IF newRank # _rankIndex THEN <<RankChangeEvent(newRank)>> ELSE <<>>)]

(* Delivery of the published events.  EventEmitter.fire calls the handlers
   subscribed to the emitter synchronously, in subscription order, before it
   returns; a disposed emitter has no handlers. *)

\* the handlers the repository subscribes to each emitter, in subscription order
Subscribers(kind) ==
    IF kind = "score"
    THEN <<[listener |-> "RankDecorator", handler |-> "_updateMeterDecoration"],
           [listener |-> "MusicPlayer", handler |-> "updateVolume"]>>
    ELSE <<[listener |-> "RankDecorator", handler |-> "_updateRankDecoration"],
           [listener |-> "RankDecorator", handler |-> "_updateSmallRankDecoration"]>>

InitialListeners == [score |-> Subscribers("score"), rank |-> Subscribers("rank")]

NoListeners == [score |-> <<>>, rank |-> <<>>]

\* the handler invocations of a sequence of fire() calls, in order
RECURSIVE Delivered(_)
Delivered(events) ==
    IF events = <<>> THEN <<>>
    ELSE LET e == Head(events)
             subs == listeners[e.kind]
         IN [i \in 1..Len(subs) |-> [listener |-> subs[i].listener,
                                     handler |-> subs[i].handler,
                                     event |-> e]]
            \o Delivered(Tail(events))

\* the RankChangeEvents of a sequence of events
RankEventsOf(events) == SelectSeq(events, LAMBDA e : e.kind = "rank")

ScoreEventsOf(events) == SelectSeq(events, LAMBDA e : e.kind = "score")

NoCall == [made |-> FALSE, by |-> "none", size |-> 0, amount |-> 0, at |-> 0,
           prevScore |-> 0, prevRankIndex |-> -1, prevLastUpdateTime |-> 0]

NoRankEvent == [seen |-> FALSE, rankIndex |-> -1]

\* The state change of one _changeScore(amount) call made by handler `by` for a
\* change of `size` characters (0 for the timer), with the history of the call.
ApplyChange(by, size, amount) ==
    LET r == _changeScore(amount)
        oldRankEvents == RankEventsOf(fired)
    IN /\ _score' = r.score
       /\ _rankIndex' = r.rankIndex
       /\ fired' = r.fired
       /\ delivered' = Delivered(r.fired)
       /\ call' = [made |-> TRUE, by |-> by, size |-> size, amount |-> amount, at |-> now,
                   prevScore |-> _score, prevRankIndex |-> _rankIndex,
                   prevLastUpdateTime |-> _lastUpdateTime]
       /\ prevRankEvent' = IF Len(oldRankEvents) > 0
                           THEN [seen |-> TRUE,
                                 rankIndex |-> oldRankEvents[Len(oldRankEvents)].rankIndex]
                           ELSE prevRankEvent

-----------------------------------------------------------------------------
(* The meter of the RankDecorator *)

\* mutant: the progress is measured from 0, not from the threshold of the rank
meterProgressFromZero(rankIndex, score) ==
    LET ranks == config.ranks
        nextThreshold == IF rankIndex + 1 = Len(ranks) THEN config.maxScore
                         ELSE ranks[rankIndex + 2]
        currentThreshold == ranks[rankIndex + 1]
    IN [num |-> score, den |-> nextThreshold - currentThreshold]

\* the progress of _createMeterDecoration(rankIndex, score), as the fraction
\* num / den = (score - currentThreshold) / (nextThreshold - currentThreshold)
MeterProgress(rankIndex, score) ==
    LET ranks == config.ranks
        nextThreshold == IF rankIndex + 1 = Len(ranks) THEN config.maxScore
                         ELSE ranks[rankIndex + 2]
        currentThreshold == ranks[rankIndex + 1]
    IN [num |-> score - currentThreshold, den |-> nextThreshold - currentThreshold]

\* the (rankIndex, score) pairs _updateMeterDecoration is called with: the
\* score events of the last call, and the keeper's accessors on a scroll
MeterInputs ==
    { [rankIndex |-> delivered[i].event.rankIndex, score |-> delivered[i].event.score] :
        i \in { j \in DOMAIN delivered : delivered[j].handler = "_updateMeterDecoration" } }
    \cup { [rankIndex |-> _rankIndex, score |-> _score] }

\* the creator an update handler of the RankDecorator calls
CreatorOf(handler) ==
    IF handler = "_updateRankDecoration" THEN "_createRankDecoration"
    ELSE IF handler = "_updateSmallRankDecoration" THEN "_createSmallRankDecoration"
    ELSE "_createMeterDecoration"

\* mutant: the update handlers do not return early on a negative rank index
createCallsUnguarded(handler, rankIndex, hasEditor) ==
    IF ~hasEditor THEN {}
    ELSE {[fn |-> CreatorOf(handler), rankIndex |-> rankIndex]}

\* the _create*Decoration calls of one update handler called with rankIndex:
\* none for a negative index (the decoration is disposed) and none without an
\* active editor
createCalls(handler, rankIndex, hasEditor) ==
    IF rankIndex < 0 THEN {}
    ELSE IF ~hasEditor THEN {}
    ELSE {[fn |-> CreatorOf(handler), rankIndex |-> rankIndex]}

\* _onDidChangeTextEditorVisibleRanges: a scroll of the active editor reads the
\* keeper's accessors and calls the rank and the meter update handlers
ScrollCalls(hasEditor) ==
    createCalls("_updateRankDecoration", _rankIndex, hasEditor)
    \cup createCalls("_updateMeterDecoration", _rankIndex, hasEditor)

\* every _create*Decoration call the RankDecorator makes for the events of the
\* last _changeScore call and for a scroll in the current state, with or
\* without an active editor
DecoratorCreateCalls ==
    UNION { ScrollCalls(hasEditor)
            \cup UNION { createCalls(delivered[i].handler, delivered[i].event.rankIndex, hasEditor) :
                           i \in { j \in DOMAIN delivered :
                                     delivered[j].listener = "RankDecorator" } } :
            hasEditor \in BOOLEAN }

-----------------------------------------------------------------------------
(* The handlers *)

\* _getChangeSize: the sum of the lengths of the inserted texts
RECURSIVE _getChangeSize(_)
_getChangeSize(contentChanges) ==
    IF contentChanges = <<>> THEN 0
    ELSE Head(contentChanges) + _getChangeSize(Tail(contentChanges))

\* the inserted-text lengths of one TextDocumentChangeEvent
ContentChanges ==
    UNION { [1..n -> 0..MaxTextLen] : n \in 0..MaxChanges }

\* the values of _getChangeSize(event) over the events the host can report
ChangeSizes == { _getChangeSize(contentChanges) : contentChanges \in ContentChanges }

\* mutant: the reward is not divided by the difficulty of the current rank
gainAmountNoDifficulty(changeSize) ==
    LET reward == IF changeSize > MAX_CHANGE_REWARD THEN MAX_CHANGE_REWARD ELSE changeSize
    IN Points(reward) * config.gainFactor

\* mutant: the reward is not capped at MAX_CHANGE_REWARD
gainAmountNoCap(changeSize) ==
    LET n == Len(config.ranks)
    IN (Points(changeSize) * n * config.gainFactor)
           \div ((_rankIndex + 1) * (DIFFICULTY_FACTOR - 1) + n)

\* mutant: the difficulty divisor does not depend on the rank
gainAtFlatDifficulty(rankIndex, changeSize) ==
    LET reward == IF changeSize > MAX_CHANGE_REWARD THEN MAX_CHANGE_REWARD ELSE changeSize
    IN (Points(reward) * config.gainFactor) \div DIFFICULTY_FACTOR

\* the delta the handler computes for a change of changeSize characters when
\* the keeper's rank index is rankIndex, in units:
\* reward / (rankProgress * (DIFFICULTY_FACTOR - 1) + 1) * gainFactor, with
\* rankProgress = (rankIndex + 1) / ranks.length
gainAt(rankIndex, changeSize) ==
    LET reward == IF changeSize > MAX_CHANGE_REWARD THEN MAX_CHANGE_REWARD ELSE changeSize
        n == Len(config.ranks)
    IN (Points(reward) * n * config.gainFactor)
           \div ((rankIndex + 1) * (DIFFICULTY_FACTOR - 1) + n)

\* the delta onDidChangeTextDocument passes to _changeScore: the one computed
\* for the current _rankIndex
GainAmount(changeSize) == gainAt(_rankIndex, changeSize)

\* the penalty of one tick of a timer of the given period after inactiveTime
\* milliseconds without a text change, in units:
\* inactiveTime * period * STYLE_DEGRADE_ACC_PPS2 / 1e6
penalty(inactiveTime, period) ==
    inactiveTime * ((period * Points(STYLE_DEGRADE_ACC_PPS2)) \div 1000000)

\* mutant: the penalty is added to the score
decayAmountNoSign ==
    LET elapsed == now - _lastUpdateTime
        inactiveTime == IF elapsed > MAX_INACTIVE_MS THEN MAX_INACTIVE_MS ELSE elapsed
        acc_ppms2 == Points(STYLE_DEGRADE_ACC_PPS2)
        p == inactiveTime * ((STYLE_DEGRADE_PERIOD_MS * acc_ppms2) \div 1000000)
    IN p * config.degradationFactor

\* mutant: the inactive time is not capped
decayAmountNoCap ==
    LET inactiveTime == now - _lastUpdateTime
        acc_ppms2 == Points(STYLE_DEGRADE_ACC_PPS2)
        p == inactiveTime * ((STYLE_DEGRADE_PERIOD_MS * acc_ppms2) \div 1000000)
    IN -(p * config.degradationFactor)

\* the delta the decay timer passes to _changeScore, in units:
\* -(inactiveTime * STYLE_DEGRADE_PERIOD_MS * STYLE_DEGRADE_ACC_PPS2 / 1e6) * degradationFactor
DecayAmount ==
    LET elapsed == now - _lastUpdateTime
        inactiveTime == IF elapsed > MAX_INACTIVE_MS THEN MAX_INACTIVE_MS ELSE elapsed
    IN -(penalty(inactiveTime, STYLE_DEGRADE_PERIOD_MS) * config.degradationFactor)

\* the wall clock advances
Advance ==
    /\ now + ClockStepMs <= StartNow + MaxElapsedMs
    /\ now' = now + ClockStepMs
    /\ UNCHANGED <<config, _score, _rankIndex, _lastUpdateTime, timerDue, _timer,
                   hostSubscribed, listeners, disposed, call, fired, delivered,
                   prevRankEvent, probe, loop, bus, disposeCalls, ext, music>>

\* the setInterval callback of the constructor
DecayTick ==
    /\ probe.pc = "off"
    /\ _timer = "live"
    /\ now >= timerDue
    /\ ApplyChange("decay", 0, DecayAmount)
    /\ timerDue' = now + STYLE_DEGRADE_PERIOD_MS
    /\ UNCHANGED <<config, _lastUpdateTime, now, _timer, hostSubscribed, listeners,
                   disposed, probe, loop, bus, disposeCalls, ext, music>>

\* onDidChangeTextDocument(event)
OnDidChangeTextDocument ==
    /\ probe.pc = "off"
    /\ hostSubscribed
    /\ \E changeSize \in ChangeSizes :
          ApplyChange("gain", changeSize, GainAmount(changeSize))
    /\ _lastUpdateTime' = now
    /\ UNCHANGED <<config, now, timerDue, _timer, hostSubscribed, listeners, disposed, probe,
                   loop, bus, disposeCalls, ext, music>>

\* mutant: dispose() without clearInterval
disposeWithoutClearInterval ==
    /\ listeners' = NoListeners
    /\ hostSubscribed' = FALSE
    /\ _timer' = _timer
    /\ disposed' = TRUE

\* mutant: dispose() switches the timer: a second call starts it again
disposeTogglesTimer ==
    /\ listeners' = NoListeners
    /\ hostSubscribed' = FALSE
    /\ _timer' = IF _timer = "live" THEN "cleared" ELSE "live"
    /\ disposed' = TRUE

\* the effect of ScoreKeeper.dispose(): every entry of _disposables is disposed
\* (the two emitters and the onDidChangeTextDocument registration), then the
\* timer is cleared
dispose ==
    /\ listeners' = NoListeners
    /\ hostSubscribed' = FALSE
    /\ _timer' = "cleared"
    /\ disposed' = TRUE

\* ScoreKeeper.dispose()
Dispose ==
    /\ probe.pc = "off"
    /\ disposeCalls < MaxDisposeCalls
    /\ dispose
    /\ disposeCalls' = disposeCalls + 1
    /\ UNCHANGED <<config, _score, _rankIndex, _lastUpdateTime, now, timerDue, call, fired,
                   delivered, prevRankEvent, probe, loop, bus, ext, music>>

NoProbe == [pc |-> "off", s1 |-> 0, s2 |-> 0, r1 |-> -1, r2 |-> -1]

\* the event loop with no task queued or running
IdleLoop == [queue |-> <<>>, task |-> "none", pending |-> <<>>, calls |-> 0, log |-> <<>>]

\* the extension before activate(): no styleMeter, no instance constructed
NotActivated ==
    [phase |-> "inactive", subscribed |-> FALSE, styleMeter |-> 0, instances |-> <<>>]

\* a MusicPlayer after its constructor on a device whose volume was
\* priorVolume: the volume is remembered and set to 0, the first audio process
\* is running.  Volumes are in 1/1000 of the full volume.
NewMusicPlayerOn(priorVolume) ==
    [disposed |-> FALSE, subscribed |-> TRUE, process |-> "running",
     exitPending |-> "none", playPending |-> "none", started |-> 1,
     startedAfterDispose |-> FALSE, escaped |-> FALSE,
     _lastVolumeUpdateTimeMs |-> 0, lastWrite |-> 0, prevWrite |-> 0, writes |-> 0,
     lastEvent |-> [at |-> 0, since |-> 0, wrote |-> FALSE],
     priorVolume |-> priorVolume, _prevVolume |-> priorVolume, volume |-> 0, written |-> 0]

\* the player of the keeper's own specifications, on a silent device
NewMusicPlayer == NewMusicPlayerOn(0)

\* a bus with no subscription
EmptyBus ==
    [subs |-> [score |-> <<>>, rank |-> <<>>], issued |-> <<>>, disposed |-> {},
     last |-> [op |-> "none", kind |-> "none", id |-> 0, again |-> FALSE,
               before |-> [score |-> <<>>, rank |-> <<>>], invoked |-> <<>>]]

\* mutant: the keeper starts at the first rank
initAtFirstRank ==
    /\ config \in Configs
    /\ _score = 0
    /\ _rankIndex = 0
    /\ _lastUpdateTime = 0
    /\ now = StartNow
    /\ timerDue = StartNow + STYLE_DEGRADE_PERIOD_MS
    /\ _timer = "live"
    /\ hostSubscribed = TRUE
    /\ listeners = InitialListeners
    /\ disposed = FALSE
    /\ call = NoCall
    /\ fired = <<>>
    /\ delivered = <<>>
    /\ prevRankEvent = NoRankEvent
    /\ probe = NoProbe
    /\ loop = IdleLoop
    /\ bus = EmptyBus
    /\ disposeCalls = 0
    /\ ext = NotActivated
    /\ music = NewMusicPlayer

\* a new ScoreKeeper(config)
Init ==
    /\ config \in Configs
    /\ _score = 0
    /\ _rankIndex = -1
    /\ _lastUpdateTime = 0
    /\ now = StartNow
    /\ timerDue = StartNow + STYLE_DEGRADE_PERIOD_MS
    /\ _timer = "live"
    /\ hostSubscribed = TRUE
    /\ listeners = InitialListeners
    /\ disposed = FALSE
    /\ call = NoCall
    /\ fired = <<>>
    /\ delivered = <<>>
    /\ prevRankEvent = NoRankEvent
    /\ probe = NoProbe
    /\ loop = IdleLoop
    /\ bus = EmptyBus
    /\ disposeCalls = 0
    /\ ext = NotActivated
    /\ music = NewMusicPlayer

Next == Advance \/ DecayTick \/ OnDidChangeTextDocument \/ Dispose

Spec == Init /\ [][Next]_vars

-----------------------------------------------------------------------------
(* The rank lookup on its own: SpecRank draws a rank table and two scores and
   applies _getRankIndex to each. *)

ProbeTables ==
    UNION { [1..n -> 0..MaxProbeScore] : n \in 0..MaxProbeRanks }

InitRank ==
    /\ \E table \in ProbeTables :
          config = [ranks |-> table, maxScore |-> MaxProbeScore,
                    gainFactor |-> 1, degradationFactor |-> 1]
    /\ _score = 0
    /\ _rankIndex = -1
    /\ _lastUpdateTime = 0
    /\ now = StartNow
    /\ timerDue = StartNow + STYLE_DEGRADE_PERIOD_MS
    /\ _timer = "live"
    /\ hostSubscribed = TRUE
    /\ listeners = InitialListeners
    /\ disposed = FALSE
    /\ call = NoCall
    /\ fired = <<>>
    /\ delivered = <<>>
    /\ prevRankEvent = NoRankEvent
    /\ \E s1 \in 0..MaxProbeScore, s2 \in 0..MaxProbeScore :
          probe = [pc |-> "ready", s1 |-> s1, s2 |-> s2, r1 |-> -1, r2 |-> -1]
    /\ loop = IdleLoop
    /\ bus = EmptyBus
    /\ disposeCalls = 0
    /\ ext = NotActivated
    /\ music = NewMusicPlayer

Lookup ==
    /\ probe.pc = "ready"
    /\ probe' = [probe EXCEPT !.pc = "done",
                              !.r1 = _getRankIndex(probe.s1),
                              !.r2 = _getRankIndex(probe.s2)]
    /\ UNCHANGED <<config, _score, _rankIndex, _lastUpdateTime, now, timerDue, _timer,
                   hostSubscribed, listeners, disposed, call, fired, delivered, prevRankEvent,
                   loop, bus, disposeCalls, ext, music>>

NextRank == Lookup

SpecRank == InitRank /\ [][NextRank]_vars

-----------------------------------------------------------------------------
(* The decay of an idle keeper as a function of the timer period: SpecPeriod
   draws a configuration, an idle duration and two periods that divide it, and
   runs the decay ticks of each period on a keeper at maxScore that sees no
   text change. *)

IdleDurations == {1000, 2000}

TickPeriods == {250, 500, 1000}

\* the score after ticks k..n of a timer of the given period, when the last
\* text change was at time 0: tick k runs at k * period
RECURSIVE scoreAfterTicks(_, _, _, _)
scoreAfterTicks(score, k, n, period) ==
    IF k > n THEN score
    ELSE LET elapsed == k * period
             inactiveTime == IF elapsed > MAX_INACTIVE_MS THEN MAX_INACTIVE_MS ELSE elapsed
             amount == -(penalty(inactiveTime, period) * config.degradationFactor)
         IN scoreAfterTicks(clamp(score + amount), k + 1, n, period)

\* the score removed from maxScore by the ticks of an idle duration
removedOver(duration, period) ==
    config.maxScore - scoreAfterTicks(config.maxScore, 1, duration \div period, period)

InitPeriod ==
    /\ config \in Configs
    /\ _score = 0
    /\ _rankIndex = -1
    /\ _lastUpdateTime = 0
    /\ now = StartNow
    /\ timerDue = StartNow + STYLE_DEGRADE_PERIOD_MS
    /\ _timer = "live"
    /\ hostSubscribed = TRUE
    /\ listeners = InitialListeners
    /\ disposed = FALSE
    /\ call = NoCall
    /\ fired = <<>>
    /\ delivered = <<>>
    /\ prevRankEvent = NoRankEvent
    /\ \E duration \in IdleDurations :
          \E p1 \in { p \in TickPeriods : duration % p = 0 },
             p2 \in { p \in TickPeriods : duration % p = 0 } :
             probe = [pc |-> "ready", duration |-> duration, period1 |-> p1, period2 |-> p2,
                      removed1 |-> 0, removed2 |-> 0]
    /\ loop = IdleLoop
    /\ bus = EmptyBus
    /\ disposeCalls = 0
    /\ ext = NotActivated
    /\ music = NewMusicPlayer

IdleFor ==
    /\ probe.pc = "ready"
    /\ probe' = [probe EXCEPT !.pc = "done",
                              !.removed1 = removedOver(probe.duration, probe.period1),
                              !.removed2 = removedOver(probe.duration, probe.period2)]
    /\ UNCHANGED <<config, _score, _rankIndex, _lastUpdateTime, now, timerDue, _timer,
                   hostSubscribed, listeners, disposed, call, fired, delivered, prevRankEvent,
                   loop, bus, disposeCalls, ext, music>>

NextPeriod == IdleFor

SpecPeriod == InitPeriod /\ [][NextPeriod]_vars

-----------------------------------------------------------------------------
(* The gain as a function of the rank: SpecGain draws a configuration, a change
   size and a rank index of the table and computes the delta of the handler at
   that rank, at the next rank, with no rank and at the highest rank. *)

InitGain ==
    /\ config \in Configs
    /\ _score = 0
    /\ _rankIndex = -1
    /\ _lastUpdateTime = 0
    /\ now = StartNow
    /\ timerDue = StartNow + STYLE_DEGRADE_PERIOD_MS
    /\ _timer = "live"
    /\ hostSubscribed = TRUE
    /\ listeners = InitialListeners
    /\ disposed = FALSE
    /\ call = NoCall
    /\ fired = <<>>
    /\ delivered = <<>>
    /\ prevRankEvent = NoRankEvent
    /\ \E changeSize \in ChangeSizes, rankIndex \in -1..(Len(config.ranks) - 1) :
          probe = [pc |-> "ready", changeSize |-> changeSize, rankIndex |-> rankIndex,
                   delta |-> 0, deltaNext |-> 0, deltaNoRank |-> 0, deltaHighest |-> 0]
    /\ loop = IdleLoop
    /\ bus = EmptyBus
    /\ disposeCalls = 0
    /\ ext = NotActivated
    /\ music = NewMusicPlayer

Grant ==
    /\ probe.pc = "ready"
    /\ LET last == Len(config.ranks) - 1
           next == IF probe.rankIndex < last THEN probe.rankIndex + 1 ELSE last
       IN probe' = [probe EXCEPT !.pc = "done",
                                 !.delta = gainAt(probe.rankIndex, probe.changeSize),
                                 !.deltaNext = gainAt(next, probe.changeSize),
                                 !.deltaNoRank = gainAt(-1, probe.changeSize),
                                 !.deltaHighest = gainAt(last, probe.changeSize)]
    /\ UNCHANGED <<config, _score, _rankIndex, _lastUpdateTime, now, timerDue, _timer,
                   hostSubscribed, listeners, disposed, call, fired, delivered, prevRankEvent,
                   loop, bus, disposeCalls, ext, music>>

NextGain == Grant

SpecGain == InitGain /\ [][NextGain]_vars

-----------------------------------------------------------------------------
(* The change notification bus on its own.  The keeper's two emitters are
   vscode.EventEmitter objects, whose code is not part of the repository; the
   bus is modelled from its contract: subscribe(kind, handler) returns a
   handle, publish(kind, event) calls the subscribed handlers, and
   handle.dispose() removes the handler.  A handle is the number of the
   subscription that returned it. *)

MaxSubscriptions == 4

EventKinds == {"score", "rank"}

\* the handlers the repository passes to onScoreChange / onRankChange
HandlersOf(kind) == { Subscribers(kind)[i].handler : i \in 1..Len(Subscribers(kind)) }

\* mutant: a new handler is put in front of the earlier ones
subscribePrepend(subs, kind, id, handler) ==
    [subs EXCEPT ![kind] = <<[id |-> id, handler |-> handler]>> \o @]

\* subscribe: the handler is added after the handlers already subscribed to the kind
subscribe(subs, kind, id, handler) ==
    [subs EXCEPT ![kind] = Append(@, [id |-> id, handler |-> handler])]

\* publish: the subscribed handlers of the kind, each called once, in list order
publish(subs, kind) ==
    [i \in 1..Len(subs[kind]) |-> subs[kind][i]]

\* the list without the entry of subscription `id`; the same list if there is none
RECURSIVE removeEntry(_, _)
removeEntry(entries, id) ==
    IF entries = <<>> THEN <<>>
    ELSE IF Head(entries).id = id THEN Tail(entries)
    ELSE <<Head(entries)>> \o removeEntry(Tail(entries), id)

\* mutant: disposing a handle removes every subscription of its handler
disposeHandleByHandler(subs, id) ==
    [k \in EventKinds |->
        SelectSeq(subs[k], LAMBDA e : e.handler # bus.issued[id].handler)]

\* handle.dispose(): the subscription that returned the handle is removed
disposeHandle(subs, id) ==
    [k \in EventKinds |-> removeEntry(subs[k], id)]

BusOp(op, kind, id, again, invoked) ==
    [op |-> op, kind |-> kind, id |-> id, again |-> again, before |-> bus.subs,
     invoked |-> invoked]

Subscribe ==
    /\ Len(bus.issued) < MaxSubscriptions
    /\ \E kind \in EventKinds : \E handler \in HandlersOf(kind) :
          LET id == Len(bus.issued) + 1
          IN bus' = [bus EXCEPT !.subs = subscribe(bus.subs, kind, id, handler),
                                !.issued = Append(@, [kind |-> kind, handler |-> handler]),
                                !.last = BusOp("subscribe", kind, id, FALSE, <<>>)]
    /\ UNCHANGED <<config, _score, _rankIndex, _lastUpdateTime, now, timerDue, _timer,
                   hostSubscribed, listeners, disposed, call, fired, delivered, prevRankEvent,
                   probe, loop, disposeCalls, ext, music>>

Publish ==
    /\ \E kind \in EventKinds :
          bus' = [bus EXCEPT !.last = BusOp("publish", kind, 0, FALSE, publish(bus.subs, kind))]
    /\ UNCHANGED <<config, _score, _rankIndex, _lastUpdateTime, now, timerDue, _timer,
                   hostSubscribed, listeners, disposed, call, fired, delivered, prevRankEvent,
                   probe, loop, disposeCalls, ext, music>>

DisposeHandle ==
    /\ \E id \in 1..Len(bus.issued) :
          bus' = [bus EXCEPT !.subs = disposeHandle(bus.subs, id),
                                !.disposed = @ \cup {id},
                                !.last = BusOp("dispose", bus.issued[id].kind, id,
                                               id \in bus.disposed, <<>>)]
    /\ UNCHANGED <<config, _score, _rankIndex, _lastUpdateTime, now, timerDue, _timer,
                   hostSubscribed, listeners, disposed, call, fired, delivered, prevRankEvent,
                   probe, loop, disposeCalls, ext, music>>

InitBus == Init /\ config = ScenarioConfig

NextBus == Subscribe \/ Publish \/ DisposeHandle

SpecBus == InitBus /\ [][NextBus]_vars

-----------------------------------------------------------------------------
(* The event loop.  The timer callback and onDidChangeTextDocument are tasks of
   one JavaScript event loop: the timer and the host post them in any order,
   also while a task is running, and the loop runs one task to its return
   before it takes the next.  Inside a task, _changeScore assigns the state and
   then fire() calls each handler in turn before it returns. *)

MaxCalls == 3
MaxQueued == 2

\* the sizes of the text changes the host reports
LoopChangeSizes == {1, MAX_CHANGE_REWARD}

Task(kind, size) ==
    [kind |-> kind, size |-> size, call |-> 0, event |-> "none", handler |-> "none"]

LogMutate(callNo, by, expect) ==
    [call |-> callNo, step |-> "mutate", by |-> by, expect |-> expect,
     event |-> "none", handler |-> "none"]

LogDeliver(callNo, event, handler) ==
    [call |-> callNo, step |-> "deliver", by |-> "none", expect |-> 0,
     event |-> event, handler |-> handler]

\* mutant: fire() posts each handler call to the loop as a task of its own
dispatchDeferred(callNo, invocations) ==
    [pending |-> <<>>,
     posted |-> [i \in 1..Len(invocations) |->
                    [kind |-> "deliver", size |-> 0, call |-> callNo,
                     event |-> invocations[i].event.kind,
                     handler |-> invocations[i].handler]]]

\* fire() calls the handlers inside the running task; nothing is posted
dispatch(callNo, invocations) ==
    [pending |-> invocations, posted |-> <<>>]

\* the interval of setInterval elapses: the timer posts its callback
TimerFires ==
    /\ _timer = "live"
    /\ now >= timerDue
    /\ Len(loop.queue) < MaxQueued
    /\ loop.calls + Len(loop.queue) < MaxCalls
    /\ loop' = [loop EXCEPT !.queue = Append(@, Task("timer", 0))]
    /\ timerDue' = now + STYLE_DEGRADE_PERIOD_MS
    /\ UNCHANGED <<config, _score, _rankIndex, _lastUpdateTime, now, _timer, hostSubscribed,
                   listeners, disposed, call, fired, delivered, prevRankEvent, probe, bus,
                   disposeCalls, ext, music>>

\* the host posts a text document change to the registered handler
HostReportsChange ==
    /\ hostSubscribed
    /\ Len(loop.queue) < MaxQueued
    /\ loop.calls + Len(loop.queue) < MaxCalls
    /\ \E size \in LoopChangeSizes :
          loop' = [loop EXCEPT !.queue = Append(@, Task("change", size))]
    /\ UNCHANGED <<config, _score, _rankIndex, _lastUpdateTime, now, timerDue, _timer,
                   hostSubscribed, listeners, disposed, call, fired, delivered, prevRankEvent,
                   probe, bus, disposeCalls, ext, music>>

\* the idle loop takes the next task: the handler computes its delta and
\* _changeScore assigns the state
RunTask ==
    /\ loop.task = "none"
    /\ loop.queue # <<>>
    /\ LET t == Head(loop.queue)
       IN IF t.kind = "deliver"
          THEN /\ loop' = [loop EXCEPT !.queue = Tail(@),
                                       !.log = Append(@, LogDeliver(t.call, t.event, t.handler))]
               /\ UNCHANGED <<_score, _rankIndex, call, fired, delivered, prevRankEvent>>
          ELSE LET amount == IF t.kind = "timer" THEN DecayAmount ELSE GainAmount(t.size)
                   by == IF t.kind = "timer" THEN "decay" ELSE "gain"
                   invocations == Delivered(_changeScore(amount).fired)
                   d == dispatch(loop.calls + 1, invocations)
               IN /\ ApplyChange(by, t.size, amount)
                  /\ loop' = [queue |-> Tail(loop.queue) \o d.posted,
                              task |-> t.kind,
                              pending |-> d.pending,
                              calls |-> loop.calls + 1,
                              log |-> Append(loop.log,
                                             LogMutate(loop.calls + 1, by, Len(invocations)))]
    /\ UNCHANGED <<config, _lastUpdateTime, now, timerDue, _timer, hostSubscribed, listeners,
                   disposed, probe, bus, disposeCalls, ext, music>>

\* fire() calls the next handler
Deliver ==
    /\ loop.task # "none"
    /\ loop.pending # <<>>
    /\ loop' = [loop EXCEPT !.pending = Tail(@),
                            !.log = Append(@, LogDeliver(loop.calls,
                                                         Head(loop.pending).event.kind,
                                                         Head(loop.pending).handler))]
    /\ UNCHANGED <<config, _score, _rankIndex, _lastUpdateTime, now, timerDue, _timer,
                   hostSubscribed, listeners, disposed, call, fired, delivered, prevRankEvent,
                   probe, bus, disposeCalls, ext, music>>

\* _changeScore returns and the handler finishes: onDidChangeTextDocument
\* stores the time of the update
Return ==
    /\ loop.task # "none"
    /\ loop.pending = <<>>
    /\ loop' = [loop EXCEPT !.task = "none"]
    /\ _lastUpdateTime' = IF loop.task = "change" THEN now ELSE _lastUpdateTime
    /\ UNCHANGED <<config, _score, _rankIndex, now, timerDue, _timer, hostSubscribed,
                   listeners, disposed, call, fired, delivered, prevRankEvent, probe, bus,
                   disposeCalls, ext, music>>

InitLoop == Init

NextLoop == Advance \/ TimerFires \/ HostReportsChange \/ RunTask \/ Deliver \/ Return

SpecLoop == InitLoop /\ [][NextLoop]_vars

-----------------------------------------------------------------------------
(* Handlers that throw.  _changeScore has no try/catch around its fire() calls;
   what happens to an exception of a handler is decided inside the emitter,
   which is modelled from the bus contract: the exception is isolated and the
   publish loop continues with the next handler. *)

LogThrow(callNo, event, handler) ==
    [call |-> callNo, step |-> "threw", by |-> "none", expect |-> 0,
     event |-> event, handler |-> handler]

\* mutant: the exception leaves fire() and _changeScore; the handler calls
\* still to be made are abandoned
abortAfterHandlerError(pending) == <<>>

\* the handler calls still to be made after a handler threw
afterHandlerError(pending) == Tail(pending)

\* fire() calls the next handler, which throws
DeliverThrows ==
    /\ loop.task # "none"
    /\ loop.pending # <<>>
    /\ loop' = [loop EXCEPT !.pending = afterHandlerError(@),
                            !.log = Append(@, LogThrow(loop.calls,
                                                       Head(loop.pending).event.kind,
                                                       Head(loop.pending).handler))]
    /\ UNCHANGED <<config, _score, _rankIndex, _lastUpdateTime, now, timerDue, _timer,
                   hostSubscribed, listeners, disposed, call, fired, delivered, prevRankEvent,
                   probe, bus, disposeCalls, ext, music>>

InitThrow == Init /\ config = ScenarioConfig

NextThrow ==
    Advance \/ TimerFires \/ HostReportsChange \/ RunTask \/ Deliver \/ DeliverThrows \/ Return

SpecThrow == InitThrow /\ [][NextThrow]_vars

-----------------------------------------------------------------------------
(* The extension entry points (extension.ts): the module-level styleMeter
   singleton, replaced on every configuration change.  Each StyleMeter instance
   owns a flat-decay interval timer.  Instances are numbered in order of
   construction; styleMeter = 0 is the undefined variable. *)

MaxInstances == 4
MaxExtScore == 3
MAX_SCORE == 80

\* gainFactor and degradationFactor of the configuration read by
\* onDidChangeConfiguration: the defaults of config.get
ExtConfig == [gainFactor |-> 1, degradationFactor |-> 1]

\* the configurations onDidChangeConfiguration reads: the defaults, and a
\* user setting with a degradationFactor that does not divide the scores
ExtConfigs == {ExtConfig, [gainFactor |-> 1, degradationFactor |-> 2]}

\* new StyleMeter(config): score 0, the interval timer started
NewStyleMeter(cfg) ==
    [config |-> cfg, _score |-> 0, _timer |-> "live", disposed |-> FALSE, scoreAtDispose |-> 0]

\* mutant: StyleMeter.dispose() without clearInterval
styleMeterDisposeNoClear(m) ==
    [m EXCEPT !.disposed = TRUE, !.scoreAtDispose = m._score]

\* StyleMeter.dispose(): the timer is cleared
styleMeterDispose(m) ==
    [m EXCEPT !._timer = "cleared", !.disposed = TRUE, !.scoreAtDispose = m._score]

\* the instances after `if (styleMeter) { styleMeter.dispose(); }`
DisposeCurrent(instances, styleMeter) ==
    IF styleMeter = 0 THEN instances
    ELSE [instances EXCEPT ![styleMeter] = styleMeterDispose(@)]

\* the body of onDidChangeConfiguration(): dispose the previous instance,
\* construct the new one
Reconfigured(e, cfg) ==
    [e EXCEPT !.instances = Append(DisposeCurrent(e.instances, e.styleMeter), NewStyleMeter(cfg)),
              !.styleMeter = Len(e.instances) + 1]

\* activate(context): the three registrations, then onDidChangeConfiguration()
activate ==
    /\ ext.phase = "inactive"
    /\ \E cfg \in ExtConfigs :
          ext' = Reconfigured([ext EXCEPT !.phase = "active", !.subscribed = TRUE], cfg)
    /\ UNCHANGED <<config, _score, _rankIndex, _lastUpdateTime, now, timerDue, _timer,
                   hostSubscribed, listeners, disposed, call, fired, delivered, prevRankEvent,
                   probe, loop, bus, disposeCalls, music>>

\* the host notifies a configuration change
onDidChangeConfiguration ==
    /\ ext.subscribed
    /\ Len(ext.instances) < MaxInstances
    /\ \E cfg \in ExtConfigs : ext' = Reconfigured(ext, cfg)
    /\ UNCHANGED <<config, _score, _rankIndex, _lastUpdateTime, now, timerDue, _timer,
                   hostSubscribed, listeners, disposed, call, fired, delivered, prevRankEvent,
                   probe, loop, bus, disposeCalls, music>>

\* the host notifies a text change: the current instance gains gainFactor
onDidChangeTextDocument ==
    /\ ext.subscribed
    /\ ext.styleMeter # 0
    /\ ext.instances[ext.styleMeter]._score < MaxExtScore
    /\ LET gained == ext.instances[ext.styleMeter]._score
                        + ext.instances[ext.styleMeter].config.gainFactor
       IN ext' = [ext EXCEPT !.instances[ext.styleMeter]._score =
                                 IF gained > MAX_SCORE THEN MAX_SCORE ELSE gained]
    /\ UNCHANGED <<config, _score, _rankIndex, _lastUpdateTime, now, timerDue, _timer,
                   hostSubscribed, listeners, disposed, call, fired, delivered, prevRankEvent,
                   probe, loop, bus, disposeCalls, music>>

\* the interval callback of an instance whose timer is live
StyleMeterTimer ==
    /\ \E i \in DOMAIN ext.instances :
          /\ ext.instances[i]._timer = "live"
          /\ ext' = [ext EXCEPT !.instances[i]._score =
                                    IF @ > 0
                                    THEN @ - ext.instances[i].config.degradationFactor
                                    ELSE @]
    /\ UNCHANGED <<config, _score, _rankIndex, _lastUpdateTime, now, timerDue, _timer,
                   hostSubscribed, listeners, disposed, call, fired, delivered, prevRankEvent,
                   probe, loop, bus, disposeCalls, music>>

\* deactivate(), after which the host disposes context.subscriptions
deactivate ==
    /\ ext.phase = "active"
    /\ ext' = [ext EXCEPT !.phase = "deactivated",
                          !.subscribed = FALSE,
                          !.instances = DisposeCurrent(ext.instances, ext.styleMeter)]
    /\ UNCHANGED <<config, _score, _rankIndex, _lastUpdateTime, now, timerDue, _timer,
                   hostSubscribed, listeners, disposed, call, fired, delivered, prevRankEvent,
                   probe, loop, bus, disposeCalls, music>>

InitExt == Init /\ config = ScenarioConfig

NextExt ==
    activate \/ onDidChangeConfiguration \/ onDidChangeTextDocument \/ StyleMeterTimer
        \/ deactivate

SpecExt == InitExt /\ [][NextExt]_vars

-----------------------------------------------------------------------------
(* The MusicPlayer: the throttled volume writes of updateVolume, and the audio
   process that _loopAudio starts again from its exit callback.  The exit of a
   process queues two callbacks, the 'exit' listener and the callback given to
   player.play; they run later, each on its own. *)

VolumeStepMs == 100
MusicHorizonMs == 600
MaxStarts == 3

\* mutant: every score event writes the volume
volumeDueAlways(last) == TRUE

\* the throttle of updateVolume
volumeDue(last) == (now - last) >= MIN_VOLUME_UPDATE_PERIOD_MS

\* config.maxVolume, in 1/1000 of the full volume
maxVolume == 150

\* the volume of a score: (score / maxScore) * maxVolume, rounded down
volumeOf(score) == (score * maxVolume) \div config.maxScore

\* the device volumes a player can find at construction
PriorVolumes == {0, maxVolume, 1000}

\* the scores of the events a keeper can publish: 0, the scenario's
\* thresholds and maxScore
EventScores == { config.ranks[i] : i \in DOMAIN config.ranks } \cup {config.maxScore}

\* the player after updateVolume(event) for an event with the given score
volumeAfter(m, score) ==
    LET wrote == volumeDue(m._lastVolumeUpdateTimeMs)
        seen == [at |-> now, since |-> now - m._lastVolumeUpdateTimeMs, wrote |-> wrote]
    IN IF wrote
       THEN [m EXCEPT !._lastVolumeUpdateTimeMs = now,
                      !.prevWrite = m.lastWrite,
                      !.lastWrite = now,
                      !.writes = @ + 1,
                      !.lastEvent = seen,
                      !.volume = volumeOf(score),
                      !.written = volumeOf(score)]
       ELSE [m EXCEPT !.lastEvent = seen]

\* mutant: dispose() restores the volume only if the remembered one is not 0
restoredVolumeIfSet(m) == IF m._prevVolume # 0 THEN m._prevVolume ELSE m.volume

\* the volume dispose() sets: the one remembered by the constructor
restoredVolume(m) == m._prevVolume

\* time passes
MusicWait ==
    /\ now + VolumeStepMs <= StartNow + MusicHorizonMs
    /\ now' = now + VolumeStepMs
    /\ UNCHANGED <<config, _score, _rankIndex, _lastUpdateTime, timerDue, _timer,
                   hostSubscribed, listeners, disposed, call, fired, delivered,
                   prevRankEvent, probe, loop, bus, disposeCalls, ext, music>>

\* updateVolume(event), called for a ScoreChangeEvent while subscribed
updateVolume ==
    /\ music.subscribed
    /\ \E score \in EventScores : music' = volumeAfter(music, score)
    /\ UNCHANGED <<config, _score, _rankIndex, _lastUpdateTime, now, timerDue, _timer,
                   hostSubscribed, listeners, disposed, call, fired, delivered,
                   prevRankEvent, probe, loop, bus, disposeCalls, ext>>

\* the running audio process ends: cleanly (code 0), or by failing to start or
\* exiting abnormally
ProcessExits ==
    /\ music.process = "running"
    /\ music.exitPending = "none"
    /\ music.playPending = "none"
    /\ \E outcome \in {"ok", "failed"} :
          music' = [music EXCEPT !.process = "exited",
                                 !.exitPending = outcome,
                                 !.playPending = outcome]
    /\ UNCHANGED <<config, _score, _rankIndex, _lastUpdateTime, now, timerDue, _timer,
                   hostSubscribed, listeners, disposed, call, fired, delivered,
                   prevRankEvent, probe, loop, bus, disposeCalls, ext>>

\* the 'exit' listener of _loopAudio: a process that exited with code 0 is
\* started again
ExitCallback ==
    /\ music.exitPending # "none"
    /\ music.exitPending = "ok" => music.started < MaxStarts
    /\ music' = IF music.exitPending = "ok"
                THEN [music EXCEPT !.exitPending = "none",
                                   !.process = "running",
                                   !.started = @ + 1,
                                   !.startedAfterDispose = @ \/ music.disposed]
                ELSE [music EXCEPT !.exitPending = "none"]
    /\ UNCHANGED <<config, _score, _rankIndex, _lastUpdateTime, now, timerDue, _timer,
                   hostSubscribed, listeners, disposed, call, fired, delivered,
                   prevRankEvent, probe, loop, bus, disposeCalls, ext>>

\* the callback given to player.play: an error that is not a kill is thrown
PlayCallback ==
    /\ music.playPending # "none"
    /\ music' = [music EXCEPT !.playPending = "none",
                              !.escaped = @ \/ music.playPending = "failed"]
    /\ UNCHANGED <<config, _score, _rankIndex, _lastUpdateTime, now, timerDue, _timer,
                   hostSubscribed, listeners, disposed, call, fired, delivered,
                   prevRankEvent, probe, loop, bus, disposeCalls, ext>>

\* MusicPlayer.dispose(): the subscription is disposed, the process, if it is
\* still running, is killed, and the volume is set back
MusicDispose ==
    /\ ~music.disposed
    /\ music' = IF music.process = "running"
                THEN [music EXCEPT !.disposed = TRUE,
                                   !.subscribed = FALSE,
                                   !.process = "killed",
                                   !.exitPending = "killed",
                                   !.playPending = "killed",
                                   !.volume = restoredVolume(music)]
                ELSE [music EXCEPT !.disposed = TRUE, !.subscribed = FALSE,
                                   !.volume = restoredVolume(music)]
    /\ UNCHANGED <<config, _score, _rankIndex, _lastUpdateTime, now, timerDue, _timer,
                   hostSubscribed, listeners, disposed, call, fired, delivered,
                   prevRankEvent, probe, loop, bus, disposeCalls, ext>>

\* a keeper of the scenario's configuration and a player constructed on a
\* device at any of the prior volumes
InitMusic ==
    /\ config = ScenarioConfig
    /\ _score = 0
    /\ _rankIndex = -1
    /\ _lastUpdateTime = 0
    /\ now = StartNow
    /\ timerDue = StartNow + STYLE_DEGRADE_PERIOD_MS
    /\ _timer = "live"
    /\ hostSubscribed = TRUE
    /\ listeners = InitialListeners
    /\ disposed = FALSE
    /\ call = NoCall
    /\ fired = <<>>
    /\ delivered = <<>>
    /\ prevRankEvent = NoRankEvent
    /\ probe = NoProbe
    /\ loop = IdleLoop
    /\ bus = EmptyBus
    /\ disposeCalls = 0
    /\ ext = NotActivated
    /\ music \in { NewMusicPlayerOn(v) : v \in PriorVolumes }

NextMusic ==
    MusicWait \/ updateVolume \/ ProcessExits \/ ExitCallback \/ PlayCallback \/ MusicDispose

SpecMusic == InitMusic /\ [][NextMusic]_vars

-----------------------------------------------------------------------------
(* The keeper and the MusicPlayer together: updateVolume is subscribed to the
   keeper's score emitter, so every score event of the timer callback and of
   onDidChangeTextDocument reaches the throttle at the time of the call.  The
   clock moves in steps shorter than the throttle's period. *)

\* a keeper whose score a tick can take to 0 within the throttle's period
VolumeConfig == MkConfig(<<0, 1>>, 2, 1, 12)

\* the player after the handler calls of one _changeScore call
heard(m, invocations) ==
    LET calls == { i \in DOMAIN invocations : invocations[i].handler = "updateVolume" }
    IN IF calls = {} THEN m
       ELSE volumeAfter(m, invocations[CHOOSE i \in calls : TRUE].event.score)

\* the timer callback, with the player listening
DecayTickHeard ==
    /\ _timer = "live"
    /\ now >= timerDue
    /\ ApplyChange("decay", 0, DecayAmount)
    /\ music' = heard(music, delivered')
    /\ timerDue' = now + STYLE_DEGRADE_PERIOD_MS
    /\ UNCHANGED <<config, _lastUpdateTime, now, _timer, hostSubscribed, listeners,
                   disposed, probe, loop, bus, disposeCalls, ext>>

\* onDidChangeTextDocument(event), with the player listening
TextChangeHeard ==
    /\ hostSubscribed
    /\ \E changeSize \in LoopChangeSizes :
          ApplyChange("gain", changeSize, GainAmount(changeSize))
    /\ music' = heard(music, delivered')
    /\ _lastUpdateTime' = now
    /\ UNCHANGED <<config, now, timerDue, _timer, hostSubscribed, listeners, disposed, probe,
                   loop, bus, disposeCalls, ext>>

InitVolume ==
    /\ config = VolumeConfig
    /\ _score = 0
    /\ _rankIndex = -1
    /\ _lastUpdateTime = 0
    /\ now = StartNow
    /\ timerDue = StartNow + STYLE_DEGRADE_PERIOD_MS
    /\ _timer = "live"
    /\ hostSubscribed = TRUE
    /\ listeners = InitialListeners
    /\ disposed = FALSE
    /\ call = NoCall
    /\ fired = <<>>
    /\ delivered = <<>>
    /\ prevRankEvent = NoRankEvent
    /\ probe = NoProbe
    /\ loop = IdleLoop
    /\ bus = EmptyBus
    /\ disposeCalls = 0
    /\ ext = NotActivated
    /\ music = NewMusicPlayerOn(maxVolume)

NextVolume == MusicWait \/ DecayTickHeard \/ TextChangeHeard

\* setInterval keeps calling the callback, and time passes
SpecVolume == InitVolume /\ [][NextVolume]_vars /\ WF_vars(DecayTickHeard) /\ WF_vars(MusicWait)

-----------------------------------------------------------------------------
(* The keeper left idle.  The clock moves in timer periods and the interval
   timer is served each time it is due; text changes arrive only during an
   initial window, after which the keeper is left to decay. *)

IdleHorizonMs == 5500
GainWindowMs == 500

\* one timer period passes; the callback that is due runs before the next period
Wait ==
    /\ now < timerDue
    /\ now + STYLE_DEGRADE_PERIOD_MS <= StartNow + IdleHorizonMs
    /\ now' = now + STYLE_DEGRADE_PERIOD_MS
    /\ UNCHANGED <<config, _score, _rankIndex, _lastUpdateTime, timerDue, _timer,
                   hostSubscribed, listeners, disposed, call, fired, delivered,
                   prevRankEvent, probe, loop, bus, disposeCalls, ext, music>>

\* a text change during the initial window
EarlyChange ==
    /\ now <= StartNow + GainWindowMs
    /\ OnDidChangeTextDocument

InitIdle == Init

NextIdle == Wait \/ DecayTick \/ EarlyChange

\* setInterval keeps calling the callback, and time passes
SpecIdle == InitIdle /\ [][NextIdle]_vars /\ WF_vars(DecayTick) /\ WF_vars(Wait)

-----------------------------------------------------------------------------
(* Claims *)

\* the score that call `c` asks for, clamped
Requested(c) == clamp(c.prevScore + c.amount)

\* C1: in every reachable state of the Score Keeper, for every configuration with
\* maxScore > 0 and whatever gains and decay ticks happened, 0 <= score <= maxScore.
C1_ScoreClamped ==
    config.maxScore > 0 => (0 <= _score /\ _score <= config.maxScore)

\* a gain asked for more than maxScore and the score was cut to maxScore
C1_Witness ==
    /\ call.made
    /\ call.by = "gain"
    /\ call.prevScore + call.amount > config.maxScore
    /\ _score = config.maxScore

\* a decay tick asked for less than 0 and the score was cut to 0
C1_WitnessFloor ==
    /\ call.made
    /\ call.by = "decay"
    /\ call.prevScore > 0
    /\ call.prevScore + call.amount < 0
    /\ _score = 0

\* C2: a _changeScore call whose clamped score equals the previous score publishes
\* no event and leaves score and rankIndex as they were.
C2_NoOpIsSilent ==
    (call.made /\ Requested(call) = call.prevScore)
        => /\ fired = <<>>
           /\ _score = call.prevScore
           /\ _rankIndex = call.prevRankIndex

\* a positive gain at maxScore was a silent no-op
C2_Witness ==
    /\ call.made
    /\ call.by = "gain"
    /\ call.amount > 0
    /\ call.prevScore = config.maxScore
    /\ fired = <<>>

\* C3: a _changeScore call that changes the clamped score publishes exactly one
\* ScoreChangeEvent, carrying the new clamped score and the rank index of that score.
C3_OneScoreEvent ==
    (call.made /\ Requested(call) # call.prevScore)
        => LET se == ScoreEventsOf(fired)
           IN /\ Len(se) = 1
              /\ se[1].score = Requested(call)
              /\ se[1].score = _score
              /\ se[1].rankIndex = _getRankIndex(Requested(call))

\* a call changed the score and the rank with it
C3_Witness ==
    /\ call.made
    /\ _score # call.prevScore
    /\ _rankIndex # call.prevRankIndex
    /\ Len(ScoreEventsOf(fired)) = 1

\* C4: a call publishes a RankChangeEvent exactly when it leaves rankIndex different
\* from what it was; the event carries the new rankIndex, and the same call
\* published a ScoreChangeEvent.
C4_RankEventIffRankChanged ==
    LET re == RankEventsOf(fired)
    IN /\ Len(re) = (IF call.made /\ _rankIndex # call.prevRankIndex THEN 1 ELSE 0)
       /\ Len(re) > 0 => /\ re[1].rankIndex = _rankIndex
                         /\ Len(ScoreEventsOf(fired)) = 1

\* a call changed the score inside one rank and published no RankChangeEvent
C4_Witness ==
    /\ call.made
    /\ _score # call.prevScore
    /\ _rankIndex = call.prevRankIndex
    /\ _rankIndex >= 0
    /\ Len(fired) = 1

\* a call changed the rank and published its RankChangeEvent
C4_WitnessChanged ==
    /\ call.made
    /\ _rankIndex # call.prevRankIndex
    /\ Len(RankEventsOf(fired)) = 1

\* C5: when one call changes both score and rank, every handler invocation for its
\* ScoreChangeEvent comes before every handler invocation for its RankChangeEvent,
\* and each listener subscribed to both sees the score event first.
C5_ScoreBeforeRank ==
    (call.made /\ _score # call.prevScore /\ _rankIndex # call.prevRankIndex)
        => LET d == delivered
           IN /\ \E i \in DOMAIN d : d[i].event.kind = "score"
              /\ \E i \in DOMAIN d : d[i].event.kind = "rank"
              /\ \A i, j \in DOMAIN d :
                    (d[i].event.kind = "score" /\ d[j].event.kind = "rank") => i < j

\* a decay tick changed score and rank, and the RankDecorator was called for both events
C5_Witness ==
    /\ call.made
    /\ call.by = "decay"
    /\ _score # call.prevScore
    /\ _rankIndex # call.prevRankIndex
    /\ \E i, j \in DOMAIN delivered :
          /\ delivered[i].listener = "RankDecorator"
          /\ delivered[j].listener = "RankDecorator"
          /\ delivered[i].event.kind = "score"
          /\ delivered[j].event.kind = "rank"

\* C6: a RankChangeEvent never carries the rankIndex of the RankChangeEvent published
\* before it, and the first one ever published does not carry -1.
C6_NoRepeatedRankEvent ==
    \A i \in DOMAIN fired :
        fired[i].kind = "rank"
            => /\ prevRankEvent.seen => fired[i].rankIndex # prevRankEvent.rankIndex
               /\ ~prevRankEvent.seen => fired[i].rankIndex # -1

\* a second RankChangeEvent was published
C6_Witness ==
    /\ prevRankEvent.seen
    /\ Len(RankEventsOf(fired)) = 1

StrictlyIncreasing(ranks) ==
    \A i, j \in DOMAIN ranks : i < j => ranks[i] < ranks[j]

SortedAscending(ranks) ==
    \A i, j \in DOMAIN ranks : i < j => ranks[i] <= ranks[j]

\* the largest 0-based index whose threshold is strictly below the score, or -1
LargestBelow(ranks, score) ==
    LET below == {i \in 0..(Len(ranks) - 1) : ranks[i + 1] < score}
    IN IF below = {} THEN -1 ELSE CHOOSE i \in below : \A j \in below : j <= i

C8_RankMonotone ==
    (probe.pc = "done" /\ SortedAscending(config.ranks) /\ probe.s1 <= probe.s2)
        => probe.r1 <= probe.r2

\* two scores of a sorted table with a repeated threshold got different ranks
C8_Witness ==
    /\ probe.pc = "done"
    /\ SortedAscending(config.ranks)
    /\ ~StrictlyIncreasing(config.ranks)
    /\ probe.s1 < probe.s2
    /\ probe.r1 < probe.r2

\* thresholds 0, 20, 30 and maxScore 40
ScenarioTable ==
    /\ config.ranks = <<Points(0), Points(20), Points(30)>>
    /\ config.maxScore = Points(40)

\* C9: with thresholds 0/20/30 and maxScore 40, a delta of +25 from score 0 and
\* rankIndex -1 gives score 25 and rankIndex 1, and publishes exactly one
\* ScoreChangeEvent {1, 25} and one RankChangeEvent {1}.
C9_Scenario1 ==
    (/\ ScenarioTable
     /\ call.made
     /\ call.prevScore = 0
     /\ call.prevRankIndex = -1
     /\ call.amount = Points(25))
        => /\ _score = Points(25)
           /\ _rankIndex = 1
           /\ fired = <<ScoreChangeEvent(1, Points(25)), RankChangeEvent(1)>>

\* the +25 call was made on a new keeper
C9_Witness ==
    /\ ScenarioTable
    /\ call.made
    /\ call.prevScore = 0
    /\ call.prevRankIndex = -1
    /\ call.amount = Points(25)
    /\ _score = Points(25)

Min(a, b) == IF a < b THEN a ELSE b

\* C11: the delta a text-change event of size n passes to _changeScore at rank index r
\* is gainFactor * min(n, MAX_CHANGE_REWARD) / (1 + ((r + 1) / ranks.length) *
\* (DIFFICULTY_FACTOR - 1)); stated with both sides multiplied by ranks.length times
\* the divisor.
C11_GainFormula ==
    (call.made /\ call.by = "gain")
        => LET n == Len(config.ranks)
               r == call.prevRankIndex
           IN call.amount * (n + (r + 1) * (DIFFICULTY_FACTOR - 1))
                  = config.gainFactor * Points(Min(call.size, MAX_CHANGE_REWARD)) * n

\* an event larger than the cap was rewarded at a rank above the lowest
C11_Witness ==
    /\ call.made
    /\ call.by = "gain"
    /\ call.size > MAX_CHANGE_REWARD
    /\ call.prevRankIndex >= 1
    /\ call.amount > 0

\* C12: with a gainFactor that is not negative, one text-change event raises the score
\* by at most MAX_CHANGE_REWARD * gainFactor, whatever its size and the current rank.
C12_GainCapped ==
    (call.made /\ call.by = "gain" /\ config.gainFactor >= 0)
        => _score - call.prevScore <= Points(MAX_CHANGE_REWARD) * config.gainFactor

\* an event larger than the cap raised the score by exactly the cap
C12_Witness ==
    /\ call.made
    /\ call.by = "gain"
    /\ call.size > MAX_CHANGE_REWARD
    /\ config.gainFactor > 0
    /\ _score - call.prevScore = Points(MAX_CHANGE_REWARD) * config.gainFactor

\* the constant a of the decay, in units per millisecond:
\* a = STYLE_DEGRADE_PERIOD_MS * STYLE_DEGRADE_ACC_PPS2 / 1e6 points per millisecond
DecayA ==
    CHOOSE a \in 1..ScoreUnitsPerPoint :
        a * 1000000 = STYLE_DEGRADE_PERIOD_MS * STYLE_DEGRADE_ACC_PPS2 * ScoreUnitsPerPoint

\* C13: the delta of a decay tick at time now is
\* -(min(now - lastUpdateTime, 100000) * a * degradationFactor) for the one constant a;
\* a tick 5000 ms after the last update with degradationFactor 1 applies -5000 * a, and
\* with a degradationFactor that is not negative no penalty exceeds
\* 100000 * a * degradationFactor.
C13_DecayFormula ==
    (call.made /\ call.by = "decay")
        => LET elapsed == call.at - call.prevLastUpdateTime
           IN /\ call.amount = -(Min(elapsed, 100000) * DecayA * config.degradationFactor)
              /\ (elapsed = 5000 /\ config.degradationFactor = 1)
                    => call.amount = -(5000 * DecayA)
              /\ config.degradationFactor >= 0
                    => -call.amount <= 100000 * DecayA * config.degradationFactor

\* a tick ran 5000 ms after the last update with degradationFactor 1 and took 5 points
C13_Witness ==
    /\ call.made
    /\ call.by = "decay"
    /\ call.at - call.prevLastUpdateTime = 5000
    /\ config.degradationFactor = 1
    /\ call.amount = -Points(5)

\* a tick ran more than 100000 ms after the last update and took the capped penalty
C13_WitnessCap ==
    /\ call.made
    /\ call.by = "decay"
    /\ call.at - call.prevLastUpdateTime > 100000
    /\ config.degradationFactor > 0
    /\ call.amount = -(100000 * DecayA * config.degradationFactor)

\* C14: _lastUpdateTime is set to the current time by every gain that changes the
\* score and by nothing else: a decay tick leaves it, and so does a gain that does
\* not change the score.
C14_TimestampOnlyOnAcceptedGain ==
    call.made
        => /\ (call.by = "gain" /\ _score # call.prevScore) => _lastUpdateTime = call.at
           /\ call.by = "decay" => _lastUpdateTime = call.prevLastUpdateTime
           /\ (call.by = "gain" /\ _score = call.prevScore)
                 => _lastUpdateTime = call.prevLastUpdateTime

\* C15: a text-change event of size 0 publishes nothing and leaves score, rankIndex and
\* _lastUpdateTime as they were.
C15_EmptyChangeIsNoOp ==
    (call.made /\ call.by = "gain" /\ call.size = 0)
        => /\ fired = <<>>
           /\ _score = call.prevScore
           /\ _rankIndex = call.prevRankIndex
           /\ _lastUpdateTime = call.prevLastUpdateTime

\* C16: a new Score Keeper has score 0 and rankIndex -1, and until its first
\* _changeScore call nothing has been published or delivered.
C16_NewKeeper ==
    ~call.made
        => /\ _score = 0
           /\ _rankIndex = -1
           /\ fired = <<>>
           /\ delivered = <<>>

\* time has passed on a new keeper and no handler has run yet
C16_Witness ==
    /\ ~call.made
    /\ ~disposed
    /\ now > StartNow

\* C20: once dispose() has returned, the timer callback and the text-change handler
\* never run again and nothing is published or delivered: only the clock moves.
C20_NothingAfterDispose ==
    [][disposed => UNCHANGED <<_score, _rankIndex, _lastUpdateTime, timerDue, _timer,
                               hostSubscribed, listeners, call, fired, delivered,
                               prevRankEvent>>]_vars

\* the keeper was disposed with a positive score, and the time of the next tick came
C20_Witness ==
    /\ disposed
    /\ call.made
    /\ _score > 0
    /\ now > call.at
    /\ now >= timerDue

\* the subscriptions of `kind` that have been made and not disposed, as handles
LiveHandles(kind) ==
    { id \in 1..Len(bus.issued) : bus.issued[id].kind = kind /\ id \notin bus.disposed }

\* C18: publishing an event of one kind calls every handler subscribed to that
\* kind at that moment exactly once, in the order in which they subscribed,
\* and calls no handler of the other kind.
C18_PublishInSubscriptionOrder ==
    bus.last.op = "publish"
        => LET invoked == bus.last.invoked
           IN /\ Len(invoked) = Cardinality(LiveHandles(bus.last.kind))
              /\ \A i \in 1..Len(invoked) :
                    /\ invoked[i].id \in LiveHandles(bus.last.kind)
                    /\ invoked[i].handler = bus.issued[invoked[i].id].handler
              /\ \A i, j \in 1..Len(invoked) : i < j => invoked[i].id < invoked[j].id

\* a publish that called two handlers while the other kind had a subscriber
\* and an earlier subscriber of the same kind had been disposed
C18_Witness ==
    /\ bus.last.op = "publish"
    /\ Len(bus.last.invoked) = 2
    /\ bus.last.invoked[1].handler # bus.last.invoked[2].handler
    /\ \E id \in bus.disposed : bus.issued[id].kind = bus.last.kind
    /\ \E k \in EventKinds : k # bus.last.kind /\ LiveHandles(k) # {}

\* C19: disposing a subscription's handle removes exactly that subscription:
\* the other handlers stay subscribed in their original order, and disposing
\* the same handle again changes nothing.
C19_DisposeRemovesExactlyOne ==
    bus.last.op = "dispose"
        => /\ \A k \in EventKinds :
                 bus.subs[k] = SelectSeq(bus.last.before[k], LAMBDA e : e.id # bus.last.id)
           /\ bus.last.again => bus.subs = bus.last.before
           /\ \A k \in EventKinds :
                 { bus.subs[k][i].id : i \in 1..Len(bus.subs[k]) } = LiveHandles(k)

\* a handle disposed for the second time while the same handler is still
\* subscribed through another handle
C19_Witness ==
    /\ bus.last.op = "dispose"
    /\ bus.last.again
    /\ \E i \in 1..Len(bus.subs[bus.last.kind]) :
          bus.subs[bus.last.kind][i].handler = bus.issued[bus.last.id].handler

\* the handle of the middle one of three subscriptions of a kind disposed
C19_WitnessMiddle ==
    /\ bus.last.op = "dispose"
    /\ ~bus.last.again
    /\ Len(bus.last.before[bus.last.kind]) = 3
    /\ bus.last.before[bus.last.kind][2].id = bus.last.id
    /\ Len(bus.subs[bus.last.kind]) = 2

\* the positions of the log at which call `c` assigned the state
MutatesOf(c) == { p \in DOMAIN loop.log : loop.log[p].step = "mutate" /\ loop.log[p].call = c }

\* the handler calls of call `c` logged before position `p`
DeliveriesBefore(c, p) ==
    { q \in DOMAIN loop.log : q < p /\ loop.log[q].step = "deliver" /\ loop.log[q].call = c }

\* C17: whatever the order in which changes and timer ticks arrive, the
\* _changeScore calls are serialized: every handler call of one call (score
\* event first, then rank event) is made before the next call assigns the state
\* or calls a handler, so the handler calls appear in the order of the calls.
C17_CallsSerialized ==
    LET log == loop.log
    IN /\ \A p, q \in DOMAIN log : p < q => log[p].call <= log[q].call
       /\ \A p, q \in DOMAIN log :
             (p < q /\ log[p].step = "mutate" /\ log[q].step = "mutate")
                 => Cardinality(DeliveriesBefore(log[p].call, q)) = log[p].expect
       /\ \A p, q \in DOMAIN log :
             (p < q /\ log[p].call = log[q].call
                    /\ log[p].step = "deliver" /\ log[q].step = "deliver")
                 => ~(log[p].event = "rank" /\ log[q].event = "score")

\* a change arrived while the handlers of a decay were being called, after an
\* earlier gain had published a score event and a rank event
C17_Witness ==
    /\ loop.task = "timer"
    /\ loop.pending # <<>>
    /\ loop.queue # <<>>
    /\ Head(loop.queue).kind = "change"
    /\ \E p \in DOMAIN loop.log :
          /\ loop.log[p].step = "mutate"
          /\ loop.log[p].by = "gain"
          /\ loop.log[p].expect = 4
          /\ loop.log[p].call < loop.calls

\* three calls, each of which published, logged in the order of the calls
C17_WitnessThreeCalls ==
    /\ loop.calls = 3
    /\ loop.task = "none"
    /\ \A c \in 1..3 : \E p \in MutatesOf(c) : loop.log[p].expect > 0

\* C21: dispose() is idempotent: a second call is accepted and leaves the
\* keeper as the first call left it, with the timer stopped and no listener
\* attached.
C21_DisposeIdempotent ==
    [][(disposeCalls >= 1 /\ disposeCalls' = disposeCalls + 1)
          => /\ UNCHANGED <<_score, _rankIndex, _lastUpdateTime, _timer, timerDue,
                            hostSubscribed, listeners, disposed>>
             /\ _timer' = "cleared"
             /\ listeners' = NoListeners
             /\ ~hostSubscribed']_vars

\* dispose() called twice on a keeper that had a positive score
C21_Witness ==
    /\ disposeCalls = 2
    /\ disposed
    /\ call.made
    /\ _score > 0

\* C29: for a rank table whose thresholds are all >= 0, in every reachable
\* state the stored rank index is the rank of the stored score (the largest
\* index whose threshold the score exceeds, -1 if none) and lies in
\* -1 .. ranks.length - 1, also after a call that changed nothing.
C29_RankMatchesScore ==
    (\A i \in DOMAIN config.ranks : config.ranks[i] >= 0)
        => /\ _rankIndex = LargestBelow(config.ranks, _score)
           /\ _rankIndex \in -1..(Len(config.ranks) - 1)

\* a gain at maxScore that changed nothing, on a keeper holding a rank
C29_Witness ==
    /\ \A i \in DOMAIN config.ranks : config.ranks[i] >= 0
    /\ call.made
    /\ call.by = "gain"
    /\ call.amount > 0
    /\ fired = <<>>
    /\ _score = config.maxScore
    /\ _rankIndex >= 0

\* a decay that took the score below a threshold
C29_WitnessDecay ==
    /\ call.made
    /\ call.by = "decay"
    /\ _score > 0
    /\ _rankIndex < call.prevRankIndex

\* the progress values drawn by the meter: those of the inputs with a rank
DrawnProgress ==
    { MeterProgress(in.rankIndex, in.score) : in \in { x \in MeterInputs : x.rankIndex >= 0 } }

ValidConfig(c) ==
    /\ StrictlyIncreasing(c.ranks)
    /\ c.gainFactor >= 0
    /\ c.degradationFactor >= 0
    /\ c.maxScore > 0

\* C23: a Score Keeper is not constructed from an invalid configuration
\* (thresholds not strictly increasing, a negative factor, maxScore <= 0): the
\* constructor fails, no timer is started and no subscription is made.
C23_InvalidConfigRefused ==
    ~ValidConfig(config) => (_timer # "live" /\ ~hostSubscribed)

\* C30: with degradationFactor > 0 and no further text changes, the decay
\* timer, fired fairly, brings the score to 0 and the rank index to -1 for
\* good, and a decay of a keeper at score 0 publishes nothing.
C30_IdleDecaysToZero ==
    /\ (config.degradationFactor > 0) => <>[](_score = 0 /\ _rankIndex = -1)
    /\ [][(_score = 0 /\ config.degradationFactor > 0
              /\ call'.by = "decay" /\ timerDue' # timerDue)
             => (fired' = <<>> /\ delivered' = <<>> /\ _score' = 0 /\ _rankIndex' = -1)]_vars

\* a keeper that held a rank after the window closed has decayed to score 0 in
\* several ticks, the last of which published the rank event -1
C30_Witness ==
    /\ config.degradationFactor > 0
    /\ now > StartNow + GainWindowMs + 2 * STYLE_DEGRADE_PERIOD_MS
    /\ _lastUpdateTime >= StartNow
    /\ _score = 0
    /\ _rankIndex = -1
    /\ call.by = "decay"
    /\ call.prevScore > 0
    /\ call.prevRankIndex >= 0
    /\ call.at >= _lastUpdateTime + 3 * STYLE_DEGRADE_PERIOD_MS

\* the handler calls logged for call `c`, made or thrown, in order
CallsLoggedFor(c) ==
    SelectSeq(loop.log, LAMBDA x : x.call = c /\ x.step \in {"deliver", "threw"})

\* C22: when a handler throws while an event is published, the remaining
\* handlers of the event are still called, the RankChangeEvent of the same
\* transition is still published, and score and rank index keep their
\* updated values.
C22_ThrowingHandlerIsolated ==
    (loop.task = "none" /\ loop.calls > 0)
        => LET logged == CallsLoggedFor(loop.calls)
           IN /\ Len(logged) = Len(delivered)
              /\ \A i \in 1..Len(logged) :
                    /\ logged[i].handler = delivered[i].handler
                    /\ logged[i].event = delivered[i].event.kind
              /\ _score = Requested(call)
              /\ _rankIndex = LargestBelow(config.ranks, _score)

\* the first handler of a score event threw in a call that changed the rank:
\* the second handler and both rank handlers were still called
C22_Witness ==
    /\ loop.task = "none"
    /\ loop.calls > 0
    /\ Len(RankEventsOf(fired)) = 1
    /\ LET logged == CallsLoggedFor(loop.calls)
       IN /\ Len(logged) = 4
          /\ logged[1].step = "threw"
          /\ logged[1].event = "score"
          /\ logged[2].step = "deliver"
          /\ logged[3].event = "rank"
          /\ logged[4].event = "rank"
    /\ _score # call.prevScore

\* the instances whose decay timer is live
LiveTimers == { i \in DOMAIN ext.instances : ext.instances[i]._timer = "live" }

\* C24: after any sequence of activation, configuration changes and
\* deactivation at most one decay timer is live: exactly one between activation
\* and deactivation, none after deactivation; and the timer of a disposed
\* instance never changes a score again.
C24_OneLiveTimer ==
    /\ Cardinality(LiveTimers) <= 1
    /\ ext.phase = "active" => Cardinality(LiveTimers) = 1
    /\ ext.phase = "deactivated" => LiveTimers = {}
    /\ \A i \in DOMAIN ext.instances :
          ext.instances[i].disposed
              => /\ ext.instances[i]._score = ext.instances[i].scoreAtDispose
                 /\ i \notin LiveTimers

\* deactivated after two configuration changes; every instance was disposed
\* and the first two were disposed while they held a positive score
C24_Witness ==
    /\ ext.phase = "deactivated"
    /\ Len(ext.instances) = 3
    /\ \A i \in DOMAIN ext.instances : ext.instances[i].disposed
    /\ ext.instances[1].scoreAtDispose > 0
    /\ ext.instances[2].scoreAtDispose > 0

\* C25: a failure of the audio process (failing to start, exiting abnormally)
\* is contained: no error escapes from the MusicPlayer's callbacks.
C25_AudioFailureContained ==
    ~music.escaped

\* C26: after MusicPlayer.dispose() no new audio process is started, whatever
\* the order of dispose and the exit callback of the running process.
C26_NoStartAfterDispose ==
    ~music.startedAfterDispose

\* C27: any two volume writes of updateVolume are at least
\* MIN_VOLUME_UPDATE_PERIOD_MS apart, and an event that arrives sooner after
\* the last write writes nothing.
C27_VolumeWritesThrottled ==
    /\ music.writes >= 2 => music.lastWrite - music.prevWrite >= MIN_VOLUME_UPDATE_PERIOD_MS
    /\ music.lastEvent.since < MIN_VOLUME_UPDATE_PERIOD_MS => ~music.lastEvent.wrote
    /\ music.lastEvent.wrote => music.lastWrite = music.lastEvent.at

\* three writes made, and then an event that came too soon and wrote nothing
C27_Witness ==
    /\ music.writes = 3
    /\ music.lastWrite - music.prevWrite = 2 * VolumeStepMs
    /\ ~music.lastEvent.wrote
    /\ music.lastEvent.at = music.lastWrite + VolumeStepMs

\* C31: with gainFactor >= 0, degradationFactor >= 0 and a clock that is not
\* behind the last-update timestamp, a decay tick never increases score or
\* rank index and a text change never decreases them.
C31_DecayDownGainUp ==
    (call.made /\ config.gainFactor >= 0 /\ config.degradationFactor >= 0
        /\ call.at >= call.prevLastUpdateTime)
        => /\ call.by = "decay" => (_score <= call.prevScore /\ _rankIndex <= call.prevRankIndex)
           /\ call.by = "gain" => (_score >= call.prevScore /\ _rankIndex >= call.prevRankIndex)

\* a decay tick of a keeper with non-negative factors that lowered score and
\* rank without reaching 0
C31_Witness ==
    /\ config.gainFactor >= 0
    /\ config.degradationFactor > 0
    /\ call.made
    /\ call.by = "decay"
    /\ call.at > call.prevLastUpdateTime
    /\ call.prevLastUpdateTime > 0
    /\ 0 < _score
    /\ _score < call.prevScore
    /\ _rankIndex < call.prevRankIndex

\* a text change that raised score and rank
C31_WitnessGain ==
    /\ config.gainFactor > 0
    /\ config.degradationFactor >= 0
    /\ call.by = "gain"
    /\ _score > call.prevScore
    /\ _rankIndex > call.prevRankIndex
    /\ call.prevRankIndex >= 0

\* C32: at the moment a listener is about to receive a ScoreChangeEvent or a
\* RankChangeEvent, rankIndex() equals the event's rankIndex and, for a score
\* event, score() equals the event's score.
C32_AccessorsAgreeWithPayload ==
    \A i \in 1..Len(loop.pending) :
        LET e == loop.pending[i].event
        IN /\ e.rankIndex = _rankIndex
           /\ e.kind = "score" => e.score = _score

\* a handler is about to receive the score event of a call that changed the
\* rank, with the rank event still to come
C32_Witness ==
    /\ loop.task # "none"
    /\ Len(loop.pending) >= 2
    /\ Head(loop.pending).event.kind = "score"
    /\ loop.pending[Len(loop.pending)].event.kind = "rank"
    /\ _rankIndex # call.prevRankIndex
    /\ _score # call.prevScore

\* C33: for a rank table with strictly increasing thresholds and maxScore > 0,
\* also when maxScore is at or below the highest threshold, the denominator
\* nextThreshold - currentThreshold of the meter's progress is not 0 for any
\* (score, rankIndex) pair the renderer receives.
C33_MeterDenominatorNonZero ==
    (StrictlyIncreasing(config.ranks) /\ config.maxScore > 0)
        => \A in \in MeterInputs :
              in.rankIndex >= 0 => MeterProgress(in.rankIndex, in.score).den # 0

\* the meter is drawn for a score at maxScore in a table whose highest
\* threshold is maxScore
C33_Witness ==
    /\ StrictlyIncreasing(config.ranks)
    /\ config.maxScore = config.ranks[Len(config.ranks)]
    /\ _score = config.maxScore
    /\ \E i \in DOMAIN delivered :
          /\ delivered[i].handler = "_updateMeterDecoration"
          /\ delivered[i].event.score = config.maxScore
          /\ delivered[i].event.rankIndex >= 0
          /\ delivered[i].event.rankIndex < Len(config.ranks) - 1

\* C34: under any interleaving of score events, rank events and scrolls, the
\* RankDecorator calls _createRankDecoration, _createSmallRankDecoration and
\* _createMeterDecoration only with 0 <= rankIndex < ranks.length, never
\* with -1.
C34_CreatorsIndexInsideTable ==
    \A c \in DecoratorCreateCalls : 0 <= c.rankIndex /\ c.rankIndex < Len(config.ranks)

\* the three update handlers have received rank index -1 after a decay from a
\* rank to score 0, and a scroll in that state reads rank index -1
C34_Witness ==
    /\ call.by = "decay"
    /\ call.prevRankIndex >= 0
    /\ _rankIndex = -1
    /\ \A h \in {"_updateRankDecoration", "_updateSmallRankDecoration", "_updateMeterDecoration"} :
          \E i \in DOMAIN delivered :
             delivered[i].handler = h /\ delivered[i].event.rankIndex = -1
    /\ DecoratorCreateCalls = {}

\* the three creators are called with the index of the last rank
C34_WitnessLastRank ==
    \A fn \in {"_createRankDecoration", "_createSmallRankDecoration", "_createMeterDecoration"} :
        [fn |-> fn, rankIndex |-> Len(config.ranks) - 1] \in DecoratorCreateCalls

\* C35: in the flat-decay StyleMeter, for every gainFactor >= 0 and
\* degradationFactor >= 0 and every sequence of text changes and decay ticks,
\* _score stays within [0, MAX_SCORE].
C35_FlatScoreInRange ==
    \A i \in DOMAIN ext.instances :
        (ext.instances[i].config.gainFactor >= 0 /\ ext.instances[i].config.degradationFactor >= 0)
            => (0 <= ext.instances[i]._score /\ ext.instances[i]._score <= MAX_SCORE)

\* C36: the tick period does not affect difficulty: for a fixed idle duration
\* below the cap and a fixed degradationFactor, the total score removed by the
\* decay ticks over the duration is the same for every period dividing it.
C36_PeriodIndependentDecay ==
    (probe.pc = "done" /\ config.degradationFactor >= 0 /\ probe.duration < MAX_INACTIVE_MS)
        => probe.removed1 = probe.removed2

\* C37: for the same change size and gainFactor, the delta at the highest rank
\* is exactly 1/DIFFICULTY_FACTOR of the delta with no rank, and the delta does
\* not increase from a rank to the next (gainFactor >= 0).
C37_DifficultyCurve ==
    probe.pc = "done"
        => /\ DIFFICULTY_FACTOR * probe.deltaHighest = probe.deltaNoRank
           /\ config.gainFactor >= 0 => probe.deltaNext <= probe.delta

\* a change at the first rank of a table of three: the delta is strictly
\* between the one with no rank and the one at the highest rank
C37_Witness ==
    /\ probe.pc = "done"
    /\ config.gainFactor > 0
    /\ Len(config.ranks) = 3
    /\ probe.rankIndex = 0
    /\ probe.changeSize >= 1
    /\ probe.deltaHighest < probe.deltaNext
    /\ probe.deltaNext < probe.delta
    /\ probe.delta < probe.deltaNoRank

\* C38: constructing a MusicPlayer and later disposing it leaves the device
\* volume at its value before the construction, for every prior volume (0
\* included) and every sequence of score events in between.
C38_DisposeRestoresVolume ==
    music.disposed => music.volume = music.priorVolume

\* a player constructed on a device at volume 0 was disposed after it had
\* written a volume above 0
C38_Witness ==
    /\ music.disposed
    /\ music.priorVolume = 0
    /\ music.writes >= 2
    /\ music.written > 0
    /\ music.volume = 0

\* a player constructed on a device at full volume was disposed after a write
C38_WitnessFull ==
    /\ music.disposed
    /\ music.priorVolume = 1000
    /\ music.writes >= 1
    /\ music.written < 1000
    /\ music.volume = 1000

\* C39: once the keeper is quiescent at score 0 (no further ScoreChangeEvent is
\* published), the device volume is the one mapped from the keeper's score:
\* the throttle does not leave it at the value of an earlier score.
C39_VolumeSettlesAtScore ==
    <>[](_score = 0) => <>[](music.volume = volumeOf(_score))

====
